---- MODULE Spec2Model ----
(***************************************************************************)
(* The novelty-signal pipeline of dutch-chronicles:                        *)
(*   src/src/application/novelty_signal.py   main(param)                   *)
(*   src/notebooks/220815_collect_analysis.py collect_results_df           *)
(*                                                                         *)
(* main is modelled as a sequential program, one action per block or loop  *)
(* iteration.  The chronicles package (InfoDynamics, RepresentationHandler,*)
(* the metrics, softmax) is imported by main but is not part of src/; its  *)
(* operators below are written from spec.md (sections 4.1 - 4.3).          *)
(*                                                                         *)
(* Numbers: embeddings are scalars drawn from EmbValues and the metrics    *)
(* are integer valued stand-ins, so that every mean is a rational with a   *)
(* known denominator.  A signal entry holds the numerator of the mean over *)
(* the window (denominator w); a dispersion holds m^2 times the variance.  *)
(* Sequences are 1-based: source position i is model position i + 1.       *)
(***************************************************************************)
EXTENDS Integers, Sequences, FiniteSets, TLC

\* ------------------------------------------------------------ bounds
MaxDocs == 3      \* documents of a run that searches prototypes
MaxSigDocs == 5   \* documents of a run that uses all documents
MaxRank == 4      \* largest configured doc_rank

EmbValues == {0, 1, 3}      \* the scalar embeddings
WindowValues == {1, 2}      \* the window sizes a run may request
ImputeValues == {0, 1}      \* the engine's fill of a boundary entry

\* The requested lists of windows: empty, single, repeated, sorted, unsorted.
WindowLists == UNION {[1..k -> WindowValues] : k \in 0..2}

\* ------------------------------------------------------------ helpers
RECURSIVE SeqSum(_)
SeqSum(s) == IF s = <<>> THEN 0 ELSE Head(s) + SeqSum(Tail(s))

Abs(x) == IF x < 0 THEN -x ELSE x

Min(a, b) == IF a <= b THEN a ELSE b

Count(s, x) == Cardinality({k \in 1..Len(s) : s[k] = x})

\* Consecutive runs of ids, cut after the positions in cuts.
RECURSIVE Runs(_, _, _)
Runs(ids, cuts, from) ==
    IF from > Len(ids) THEN <<>>
    ELSE LET ends == {c \in cuts : c >= from}
             to   == IF ends = {} THEN Len(ids)
                     ELSE CHOOSE c \in ends : \A d \in ends : c <= d
         IN  <<SubSeq(ids, from, to)>> \o Runs(ids, cuts, to + 1)

\* ------------------------------------------------------------ state
VARIABLES
    model,            \* Top2Vec model: indexed document id -> document vector
    subset_ids,       \* prims['id'].tolist(): the filtered, date-sorted ids
    param,            \* the YAML parameter grid
    impute,           \* the engine's fill of a boundary entry
    pc,               \* position in main
    groupings_ids,    \* ids of each time bucket, in bucket order
    gi,               \* index of the next group of the prototype loop
    prototypes_ids,
    prototypes_std,
    prot_vectors,
    prot_docs,
    wi,               \* index of the next window of the window loop
    system_states,
    nwrites,          \* path -> times it was opened for writing
    file_prototypes,  \* prototypes.ndjson
    file_vectors,     \* vectors.npy
    file_cossims,     \* cossims.npy (the ids its rows belong to)
    file_novelty,     \* w -> novelty_w{w}.ndjson
    file_states,      \* infodynamics_system_states.ndjson
    signal_csv        \* outcome of collect_results_df

vars == <<model, subset_ids, param, impute, pc, groupings_ids, gi,
          prototypes_ids, prototypes_std, prot_vectors, prot_docs, wi,
          system_states, nwrites, file_prototypes, file_vectors,
          file_cossims, file_novelty, file_states, signal_csv>>

\* ------------------------------------------- chronicles.entropies.metrics
\* Integer stand-ins: jsd symmetric, kld asymmetric, cosine symmetric;
\* each is 0 on equal arguments and non-negative.
Metrics == {"jsd", "kld", "cosine"}

Dist(meas, a, b) ==
    CASE meas = "jsd" -> (a - b) * (a - b)
      [] meas = "kld" -> IF a >= b THEN 2 * (a - b) ELSE b - a
      [] OTHER        -> Abs(a - b)

\* chronicles.util.softmax: a transform of one vector that is not the
\* identity (order preserving stand-in).
softmax(vec) == vec * vec + 1

\* ------------------------------------------- chronicles.entropies.InfoDynamics
\* Position p (1-based) has a full window on both sides.
IsValidPos(n, p, w) == p > w /\ p <= n - w

\* No position has a full window on both sides: InsufficientWindowError.
InsufficientWindow(data, w) == Len(data) < 2 * w + 1

\* Sum of the distances from data[p] to the w preceding entries.
NoveltyAt(data, p, w, meas) ==
    SeqSum([j \in 1..w |-> Dist(meas, data[p], data[p - w - 1 + j])])

\* Sum of the distances from data[p] to the w following entries.
TransienceAt(data, p, w, meas) ==
    SeqSum([j \in 1..w |-> Dist(meas, data[p], data[p + j])])

novelty(data, w, meas, imp) ==
    [p \in 1..Len(data) |->
        IF IsValidPos(Len(data), p, w) THEN NoveltyAt(data, p, w, meas)
        ELSE imp * w]

transience(data, w, meas, imp) ==
    [p \in 1..Len(data) |->
        IF IsValidPos(Len(data), p, w) THEN TransienceAt(data, p, w, meas)
        ELSE imp * w]

\* Faulty variant of resonance: the difference is taken the other way round.
resonance_swapped(data, w, meas, imp) ==
    [p \in 1..Len(data) |->
        IF IsValidPos(Len(data), p, w)
        THEN TransienceAt(data, p, w, meas) - NoveltyAt(data, p, w, meas)
        ELSE imp * w]

resonance(data, w, meas, imp) ==
    [p \in 1..Len(data) |->
        IF IsValidPos(Len(data), p, w)
        THEN NoveltyAt(data, p, w, meas) - TransienceAt(data, p, w, meas)
        ELSE imp * w]

slice_signals(signal, w) == SubSeq(signal, w + 1, Len(signal) - w)

\* The signals the engine holds (and exports) after fit_save.
fit_save(data, w, meas, slice, imp) ==
    LET cut(s) == IF slice THEN slice_signals(s, w) ELSE s
    IN  [novelty    |-> cut(novelty(data, w, meas, imp)),
         transience |-> cut(transience(data, w, meas, imp)),
         resonance  |-> cut(resonance(data, w, meas, imp))]

\* SignalEngine.fit of spec.md 4.3: the signals at the valid positions.
fit(data, w, meas) == fit_save(data, w, meas, TRUE, 0)

\* ------------------------------------------- chronicles.representation
filter_invalid_doc_ids(ids) == SelectSeq(ids, LAMBDA d : d \in DOMAIN model)

find_doc_vectors(ids) == [k \in 1..Len(ids) |-> model[ids[k]]]

\* Distances of document k of the group to every other document of it.
DistsToRest(doc_ids, k) ==
    [j \in 1..(Len(doc_ids) - 1) |->
        Dist("cosine", model[doc_ids[k]],
             model[doc_ids[IF j < k THEN j ELSE j + 1]])]

\* Sum of the distances to the others: the mean times (size - 1).
AvgDist(doc_ids, k) == SeqSum(DistsToRest(doc_ids, k))

\* Position of document k when the group is sorted ascending by mean
\* distance (ties keep the group's order).
SortPos(doc_ids, k) ==
    1 + Cardinality({j \in 1..Len(doc_ids) :
            \/ AvgDist(doc_ids, j) < AvgDist(doc_ids, k)
            \/ AvgDist(doc_ids, j) = AvgDist(doc_ids, k) /\ j < k})

\* m^2 times the variance of ds.
Dispersion(ds) ==
    Len(ds) * SeqSum([j \in 1..Len(ds) |-> ds[j] * ds[j]])
        - SeqSum(ds) * SeqSum(ds)

prototypes_by_avg_distance(doc_ids, doc_rank) ==
    LET k == CHOOSE j \in 1..Len(doc_ids) : SortPos(doc_ids, j) = doc_rank + 1
    IN  [id |-> doc_ids[k], std |-> Dispersion(DistsToRest(doc_ids, k))]

\* ------------------------------------------------------------ main
Paths ==
    {<<"prototypes.ndjson", 0>>, <<"vectors.npy", 0>>, <<"cossims.npy", 0>>,
     <<"infodynamics_system_states.ndjson", 0>>}
        \cup {<<"novelty_w", w>> : w \in WindowValues}

NoSignal == [novelty |-> <<>>, transience |-> <<>>, resonance |-> <<>>]

NotCollected == [status |-> "none", rows |-> 0, w |-> 0]

\* Documents carry an uncertainty only when prototypes were searched.
NoUncertainty == -1

\* The state at the top of main: resources loaded, prims filtered and sorted.
InitWith(ndocs, unindexed, ranks, wlists, imputes) ==
    /\ \E n \in ndocs :
          /\ subset_ids = [i \in 1..n |-> i]
          /\ \E missing \in SUBSET ((1..n) \cap unindexed) :
                model \in [(1..n) \ missing -> EmbValues]
    /\ param \in [find_prototypes : BOOLEAN, doc_rank : ranks,
                  windows : wlists, softmax : BOOLEAN]
    /\ impute \in imputes
    /\ pc = "start"
    /\ groupings_ids = <<>>
    /\ gi = 1
    /\ prototypes_ids = <<>>
    /\ prototypes_std = <<>>
    /\ prot_vectors = <<>>
    /\ prot_docs = <<>>
    /\ wi = 1
    /\ system_states = <<>>
    /\ nwrites = [p \in Paths |-> 0]
    /\ file_prototypes = <<>>
    /\ file_vectors = <<>>
    /\ file_cossims = <<>>
    /\ file_novelty = [w \in WindowValues |-> NoSignal]
    /\ file_states = <<>>
    /\ signal_csv = NotCollected

\* lines 180-204: group the ids by time bucket, start the prototype lists.
\* prims is sorted by date, so a bucket is a run of consecutive ids.
GroupPrims ==
    /\ pc = "start"
    /\ param.find_prototypes
    /\ \E cuts \in SUBSET (1..(Len(subset_ids) - 1)) :
          groupings_ids' = Runs(subset_ids, cuts, 1)
    /\ prototypes_ids' = <<>>
    /\ prototypes_std' = <<>>
    /\ gi' = 1
    /\ pc' = "find_prototypes"
    /\ UNCHANGED <<model, subset_ids, param, impute, prot_vectors, prot_docs,
                   wi, system_states, nwrites, file_prototypes, file_vectors,
                   file_cossims, file_novelty, file_states, signal_csv>>

\* Faulty variant of SelectPrototype: the clamp stops one position short.
SelectPrototype_shortclamp(doc_ids, doc_rank) ==
    IF Len(doc_ids) = 1
    THEN [id |-> doc_ids[1], std |-> 0]
    ELSE IF doc_rank >= Len(doc_ids)
    THEN prototypes_by_avg_distance(doc_ids, Len(doc_ids) - 2)
    ELSE prototypes_by_avg_distance(doc_ids, doc_rank)

\* Faulty variant of SelectPrototype: doc_rank taken as 1-based (rank 0 becomes
\* index -1, the last position).
SelectPrototype_onebased(doc_ids, doc_rank) ==
    IF Len(doc_ids) = 1
    THEN [id |-> doc_ids[1], std |-> 0]
    ELSE IF doc_rank >= Len(doc_ids)
    THEN prototypes_by_avg_distance(doc_ids, Len(doc_ids) - 1)
    ELSE prototypes_by_avg_distance(doc_ids, (doc_rank - 1) % Len(doc_ids))

\* Faulty variant of SelectPrototype: no branch for a single document, whose
\* dispersion is then the deviation of an empty list of distances (not a
\* number, written -1).
SelectPrototype_nosingle(doc_ids, doc_rank) ==
    IF doc_rank >= Len(doc_ids)
    THEN [id  |-> prototypes_by_avg_distance(doc_ids, Len(doc_ids) - 1).id,
          std |-> IF Len(doc_ids) = 1 THEN -1
                  ELSE prototypes_by_avg_distance(doc_ids, Len(doc_ids) - 1).std]
    ELSE [id  |-> prototypes_by_avg_distance(doc_ids, doc_rank).id,
          std |-> IF Len(doc_ids) = 1 THEN -1
                  ELSE prototypes_by_avg_distance(doc_ids, doc_rank).std]

\* lines 211-227: the prototype of one non-empty filtered group.
SelectPrototype(doc_ids, doc_rank) ==
    IF Len(doc_ids) = 1
    THEN [id |-> doc_ids[1], std |-> 0]
    ELSE IF doc_rank >= Len(doc_ids)
    THEN prototypes_by_avg_distance(doc_ids, Len(doc_ids) - 1)
    ELSE prototypes_by_avg_distance(doc_ids, doc_rank)

\* Faulty variant of EmitPrototype: the append is outside the emptiness check.
EmitPrototype_always(list, doc_ids, value) == Append(list, value)

\* lines 209-230: what one group adds to a prototype list (nothing when empty).
EmitPrototype(list, doc_ids, value) ==
    IF doc_ids # <<>> THEN Append(list, value) ELSE list

\* lines 205-230: one iteration of the prototype loop.
FindPrototype ==
    /\ pc = "find_prototypes"
    /\ gi <= Len(groupings_ids)
    /\ LET doc_ids == filter_invalid_doc_ids(groupings_ids[gi])
           prot    == IF doc_ids # <<>>
                      THEN SelectPrototype(doc_ids, param.doc_rank)
                      ELSE [id |-> 0, std |-> 0]
       IN  /\ prototypes_ids' = EmitPrototype(prototypes_ids, doc_ids, prot.id)
           /\ prototypes_std' = EmitPrototype(prototypes_std, doc_ids, prot.std)
    /\ gi' = gi + 1
    /\ UNCHANGED <<model, subset_ids, param, impute, pc, groupings_ids,
                   prot_vectors, prot_docs, wi, system_states, nwrites,
                   file_prototypes, file_vectors, file_cossims, file_novelty,
                   file_states, signal_csv>>

\* lines 232-239: vectors and documents of the prototypes, with uncertainty.
ExtractPrototypes ==
    /\ pc = "find_prototypes"
    /\ gi > Len(groupings_ids)
    /\ prot_vectors' = find_doc_vectors(prototypes_ids)
    /\ prot_docs' = [k \in 1..Min(Len(prototypes_ids), Len(prototypes_std)) |->
                        [id |-> prototypes_ids[k],
                         uncertainty |-> prototypes_std[k]]]
    /\ pc' = "dump"
    /\ UNCHANGED <<model, subset_ids, param, impute, groupings_ids, gi,
                   prototypes_ids, prototypes_std, wi, system_states, nwrites,
                   file_prototypes, file_vectors, file_cossims, file_novelty,
                   file_states, signal_csv>>

\* lines 241-254: no prototypes, every valid document is used.
ExtractAll ==
    /\ pc = "start"
    /\ ~param.find_prototypes
    /\ LET valid_subset_ids == filter_invalid_doc_ids(subset_ids)
       IN  /\ prot_vectors' = find_doc_vectors(valid_subset_ids)
           /\ prot_docs' = [k \in 1..Len(valid_subset_ids) |->
                               [id |-> valid_subset_ids[k],
                                uncertainty |-> NoUncertainty]]
    /\ pc' = "dump"
    /\ UNCHANGED <<model, subset_ids, param, impute, groupings_ids, gi,
                   prototypes_ids, prototypes_std, wi, system_states, nwrites,
                   file_prototypes, file_vectors, file_cossims, file_novelty,
                   file_states, signal_csv>>

\* lines 256-270: prototypes.ndjson, vectors.npy, cossims.npy.
Dump ==
    /\ pc = "dump"
    /\ file_prototypes' = prot_docs
    /\ file_vectors' = prot_vectors
    /\ file_cossims' = [k \in 1..Len(prot_docs) |-> prot_docs[k].id]
    /\ nwrites' = [p \in Paths |->
                      IF p \in {<<"prototypes.ndjson", 0>>, <<"vectors.npy", 0>>,
                                <<"cossims.npy", 0>>}
                      THEN nwrites[p] + 1 ELSE nwrites[p]]
    /\ pc' = "softmax"
    /\ UNCHANGED <<model, subset_ids, param, impute, groupings_ids, gi,
                   prototypes_ids, prototypes_std, prot_vectors, prot_docs, wi,
                   system_states, file_novelty, file_states, signal_csv>>

\* lines 272-277: optional softmax of the vectors, empty system_states.
Softmax ==
    /\ pc = "softmax"
    /\ prot_vectors' = IF param.softmax
                       THEN [k \in 1..Len(prot_vectors) |-> softmax(prot_vectors[k])]
                       ELSE prot_vectors
    /\ system_states' = <<>>
    /\ wi' = 1
    /\ pc' = "windows"
    /\ UNCHANGED <<model, subset_ids, param, impute, groupings_ids, gi,
                   prototypes_ids, prototypes_std, prot_docs, nwrites,
                   file_prototypes, file_vectors, file_cossims, file_novelty,
                   file_states, signal_csv>>

\* Faulty variant of WindowOf: the engine is built once, for the first window.
WindowOf_first(k) == param.windows[1]

\* line 278: the window of iteration k.
WindowOf(k) == param.windows[k]

\* Faulty variant of slice_w: the signals are sliced by the window.
slice_w_true == TRUE

\* line 292: fit_save(..., slice_w=False, ...).
slice_w == FALSE

\* Faulty variant of novelty_path: one file name for every window.
novelty_path_shared(w) == <<"novelty_w", 1>>

\* line 293: novelty_w{w}.ndjson.
novelty_path(w) == <<"novelty_w", w>>

\* lines 296-313: z-scale novelty and resonance, fit resonance on novelty
\* without intercept.  With Sxx, Syy, Sxy the centred sums (times n), beta
\* is Sxy / sqrt(Sxx * Syy) and r_sq is its square, kept as the three sums;
\* a constant signal scales to zeros (beta 0; r_sq 1 when the target is
\* constant too, else 0).
regression_res(w, nsignal, rsignal) ==
    LET n   == Len(nsignal)
        Sx  == SeqSum(nsignal)
        Sy  == SeqSum(rsignal)
        Sxx == n * SeqSum([k \in 1..n |-> nsignal[k] * nsignal[k]]) - Sx * Sx
        Syy == n * SeqSum([k \in 1..n |-> rsignal[k] * rsignal[k]]) - Sy * Sy
        Sxy == n * SeqSum([k \in 1..n |-> nsignal[k] * rsignal[k]]) - Sx * Sy
    IN  [window |-> w,
         alpha  |-> 0,
         beta   |-> IF Sxx = 0 \/ Syy = 0 THEN [sxy |-> 0, sxx |-> 1, syy |-> 1]
                    ELSE [sxy |-> Sxy, sxx |-> Sxx, syy |-> Syy],
         r_sq   |-> IF Syy = 0 THEN [sxy |-> 1, sxx |-> 1, syy |-> 1]
                    ELSE IF Sxx = 0 THEN [sxy |-> 0, sxx |-> 1, syy |-> 1]
                    ELSE [sxy |-> Sxy, sxx |-> Sxx, syy |-> Syy]]

\* Faulty variant of AppendState: the record is put in front.
AppendState_front(states, res) == <<res>> \o states

\* line 314: system_states.append(regression_res).
AppendState(states, res) == Append(states, res)

\* lines 278-315: one iteration of the window loop.  An error raised by the
\* engine is not caught: it leaves the loop and main.
InfoDynamicsWindow ==
    /\ pc = "windows"
    /\ wi <= Len(param.windows)
    /\ LET w == WindowOf(wi)
       IN  IF InsufficientWindow(prot_vectors, w)
           THEN /\ pc' = "failed"
                /\ UNCHANGED <<wi, system_states, nwrites, file_novelty>>
           ELSE LET im_vectors == fit_save(prot_vectors, w, "jsd", slice_w, impute)
                    path == novelty_path(w)
                IN  /\ file_novelty' = [file_novelty EXCEPT ![path[2]] = im_vectors]
                    /\ nwrites' = [nwrites EXCEPT ![path] = @ + 1]
                    /\ system_states' =
                          AppendState(system_states,
                              regression_res(w, im_vectors.novelty,
                                             im_vectors.resonance))
                    /\ wi' = wi + 1
                    /\ pc' = pc
    /\ UNCHANGED <<model, subset_ids, param, impute, groupings_ids, gi,
                   prototypes_ids, prototypes_std, prot_vectors, prot_docs,
                   file_prototypes, file_vectors, file_cossims, file_states,
                   signal_csv>>

\* lines 317-321: infodynamics_system_states.ndjson.
DumpSystemStates ==
    /\ pc = "windows"
    /\ wi > Len(param.windows)
    /\ file_states' = system_states
    /\ nwrites' = [nwrites EXCEPT ![<<"infodynamics_system_states.ndjson", 0>>] = @ + 1]
    /\ pc' = "done"
    /\ UNCHANGED <<model, subset_ids, param, impute, groupings_ids, gi,
                   prototypes_ids, prototypes_std, prot_vectors, prot_docs, wi,
                   system_states, file_prototypes, file_vectors, file_cossims,
                   file_novelty, signal_csv>>

\* notebook lines 18-65: collect the exports of a finished run for window w.
\* Every column assigned to the frame of the documents must have its length.
collect_results_df ==
    /\ pc = "done"
    /\ \E w \in WindowValues :
          signal_csv' =
             IF nwrites[<<"novelty_w", w>>] = 0
             THEN [status |-> "FileNotFoundError", rows |-> 0, w |-> w]
             ELSE LET rows == Len(file_prototypes)
                      cols == {Len(file_vectors), Len(file_novelty[w].novelty),
                               Len(file_novelty[w].transience),
                               Len(file_novelty[w].resonance)}
                  IN  IF cols = {rows}
                      THEN [status |-> "ok", rows |-> rows, w |-> w]
                      ELSE [status |-> "ValueError", rows |-> rows, w |-> w]
    /\ pc' = "collected"
    /\ UNCHANGED <<model, subset_ids, param, impute, groupings_ids, gi,
                   prototypes_ids, prototypes_std, prot_vectors, prot_docs, wi,
                   system_states, nwrites, file_prototypes, file_vectors,
                   file_cossims, file_novelty, file_states>>

Next ==
    \/ GroupPrims
    \/ FindPrototype
    \/ ExtractPrototypes
    \/ ExtractAll
    \/ Dump
    \/ Softmax
    \/ InfoDynamicsWindow
    \/ DumpSystemStates
    \/ collect_results_df

\* Runs that search prototypes or not, one short window list.
Init ==
    /\ InitWith(1..MaxDocs, 1..MaxDocs, 0..MaxRank, {<<1>>}, {0})
    /\ param.find_prototypes \/ param.doc_rank = 0

Spec == Init /\ [][Next]_vars

\* Runs over all documents (find_prototypes: False), every window list.
InitSignal ==
    /\ InitWith(1..MaxSigDocs, {}, {0}, WindowLists,
                ImputeValues)
    /\ ~param.find_prototypes

NextSignal ==
    \/ ExtractAll
    \/ Dump
    \/ Softmax
    \/ InfoDynamicsWindow
    \/ DumpSystemStates
    \/ collect_results_df

SpecSignal == InitSignal /\ [][NextSignal]_vars

\* ------------------------------------------------------------ properties
\* Reference computations, written apart from the operators above.
Range(s) == {s[k] : k \in 1..Len(s)}

\* Sum of the meas-distances from data[p] to data[lo..hi].
RECURSIVE RefSum(_, _, _, _, _)
RefSum(data, p, lo, hi, meas) ==
    IF lo > hi THEN 0
    ELSE Dist(meas, data[p], data[lo]) + RefSum(data, p, lo + 1, hi, meas)

\* Sum of the distances from document d to the documents of S.
RECURSIVE RefDistSum(_, _)
RefDistSum(S, d) ==
    IF S = {} THEN 0
    ELSE LET e == CHOOSE x \in S : TRUE
         IN  Abs(model[d] - model[e]) + RefDistSum(S \ {e}, d)

\* (size - 1) times the mean in-group distance of document d.
RefAvg(ids, d) == RefDistSum(Range(ids) \ {d}, d)

\* Group indices handled so far whose filtered id list is not empty.
NonEmptyGroups ==
    SelectSeq([g \in 1..(gi - 1) |-> g],
              LAMBDA g : filter_invalid_doc_ids(groupings_ids[g]) # <<>>)

\* The filtered ids of the group that prototype entry j came from.
GroupOfEntry(j) == filter_invalid_doc_ids(groupings_ids[NonEmptyGroups[j]])

Emitted(j) == [id |-> prototypes_ids[j], std |-> prototypes_std[j]]

\* C3: for a group of at least two valid ids the emitted prototype is the
\* document at sorted position min(doc_rank, size - 1) of the ascending order
\* by mean in-group distance: a rank >= size gives what rank size - 1 gives,
\* a rank within [0, size - 1] gives the document at exactly that position.
C3_RankClamped ==
    \A j \in 1..Len(prototypes_ids) :
        LET ids  == GroupOfEntry(j)
            size == Len(ids)
            pos  == Min(param.doc_rank, size - 1)
            d    == prototypes_ids[j]
            less == Cardinality({e \in Range(ids) : RefAvg(ids, e) < RefAvg(ids, d)})
            leq  == Cardinality({e \in Range(ids) : RefAvg(ids, e) <= RefAvg(ids, d)})
        IN  size >= 2 =>
              /\ d \in Range(ids)
              /\ less <= pos /\ pos < leq
              /\ param.doc_rank >= size =>
                    Emitted(j) = prototypes_by_avg_distance(ids, size - 1)
              /\ param.doc_rank < size =>
                    Emitted(j) = prototypes_by_avg_distance(ids, param.doc_rank)

\* A group of three documents with doc_rank beyond its size, whose clamped
\* choice is strictly farther from the group than another document.
C3_Witness ==
    \E j \in 1..Len(prototypes_ids) :
        LET ids == GroupOfEntry(j)
        IN  /\ Len(ids) = 3
            /\ param.doc_rank > Len(ids)
            /\ \E e \in Range(ids) : RefAvg(ids, e) < RefAvg(ids, prototypes_ids[j])

\* C4: in a group of at least two valid documents rank 0 selects a document
\* of minimum mean in-group distance and rank size - 1 one of maximum mean
\* in-group distance; the emitted prototype is that document when the
\* configured rank is 0, respectively size - 1.
C4_RankExtremes ==
    \A j \in 1..Len(prototypes_ids) :
        LET ids  == GroupOfEntry(j)
            size == Len(ids)
            lo   == SelectPrototype(ids, 0).id
            hi   == SelectPrototype(ids, size - 1).id
        IN  size >= 2 =>
              /\ \A e \in Range(ids) : RefAvg(ids, lo) <= RefAvg(ids, e)
              /\ \A e \in Range(ids) : RefAvg(ids, hi) >= RefAvg(ids, e)
              /\ param.doc_rank = 0 => prototypes_ids[j] = lo
              /\ param.doc_rank = size - 1 => prototypes_ids[j] = hi

\* A group of three documents with three different mean distances, handled
\* with the maximum valid rank.
C4_Witness ==
    \E j \in 1..Len(prototypes_ids) :
        LET ids == GroupOfEntry(j)
        IN  /\ Len(ids) = 3
            /\ param.doc_rank = 2
            /\ Cardinality({RefAvg(ids, e) : e \in Range(ids)}) = 3

\* C5: a group with exactly one valid id after filtering emits that id with
\* dispersion 0, whatever doc_rank is configured.
C5_SingletonPrototype ==
    \A j \in 1..Len(prototypes_ids) :
        LET ids == GroupOfEntry(j)
        IN  Len(ids) = 1 =>
              /\ prototypes_ids[j] = ids[1]
              /\ prototypes_std[j] = 0

\* A group of two ids, one of them not indexed, handled with a rank above 0.
C5_Witness ==
    \E j \in 1..Len(prototypes_ids) :
        /\ Len(GroupOfEntry(j)) = 1
        /\ Len(groupings_ids[NonEmptyGroups[j]]) = 2
        /\ param.doc_rank >= 1

\* C6: while and after the prototype loop runs, the two prototype lists have
\* one entry per handled group that kept a valid id, in group order, and no
\* entry for a group filtered to empty: entry k is a document of the k-th
\* non-empty group and its dispersion.
C6_OnePrototypePerNonEmptyGroup ==
    /\ Len(prototypes_ids) = Len(NonEmptyGroups)
    /\ Len(prototypes_std) = Len(NonEmptyGroups)
    /\ \A k \in 1..Len(NonEmptyGroups) :
          LET ids == GroupOfEntry(k)
          IN  /\ prototypes_ids[k] \in Range(ids)
              /\ Emitted(k) = SelectPrototype(ids, param.doc_rank)
    /\ pc \notin {"start", "find_prototypes"} /\ param.find_prototypes =>
          /\ gi = Len(groupings_ids) + 1
          /\ Len(prot_docs) = Len(NonEmptyGroups)
          /\ \A k \in 1..Len(prot_docs) : prot_docs[k].id = prototypes_ids[k]
                                        /\ prot_docs[k].uncertainty = prototypes_std[k]

\* The loop is over; a group filtered to empty stood between two groups that
\* emitted a prototype.
C6_Witness ==
    /\ pc = "dump"
    /\ param.find_prototypes
    /\ Len(groupings_ids) = 3
    /\ filter_invalid_doc_ids(groupings_ids[2]) = <<>>
    /\ Len(prototypes_ids) = 2

\* ------------------------------------------------ properties of the signals
Written(w) == nwrites[<<"novelty_w", w>>] > 0

\* The window loop has been entered: prot_vectors is the engine's table.
InWindowPhase == pc \in {"windows", "done", "failed", "collected"}

RefNovelty(data, p, w, meas) == RefSum(data, p, p - w, p - 1, meas)

RefTransience(data, p, w, meas) == RefSum(data, p, p + 1, p + w, meas)

C7_FailureIsolated ==
    pc \in {"done", "failed", "collected"} =>
        /\ nwrites[<<"infodynamics_system_states.ndjson", 0>>] = 1
        /\ \A k \in 1..Len(param.windows) :
              ~InsufficientWindow(prot_vectors, param.windows[k]) =>
                  /\ Written(param.windows[k])
                  /\ \E r \in 1..Len(file_states) :
                        file_states[r].window = param.windows[k]

\* C8: when the window loop has completed, the system-state export holds
\* one record per requested window in request order: record k carries
\* window k of the request and the alpha, beta, r_sq fitted from the novelty
\* and resonance signals of that window.
C8_OneRecordPerWindowInOrder ==
    pc \in {"done", "collected"} =>
        /\ nwrites[<<"infodynamics_system_states.ndjson", 0>>] = 1
        /\ Len(file_states) = Len(param.windows)
        /\ \A k \in 1..Len(param.windows) :
              LET w == param.windows[k]
              IN  /\ file_states[k].window = w
                  /\ Written(w)
                  /\ file_states[k] =
                        regression_res(w, file_novelty[w].novelty,
                                       file_novelty[w].resonance)

\* The request <<2, 1>> (not sorted) completed with two different fits.
C8_Witness ==
    /\ pc = "done"
    /\ param.windows = <<2, 1>>
    /\ Len(file_states) = 2
    /\ file_states[1].beta # file_states[2].beta

\* The table handed to the engine: the exported vectors, softmaxed if asked.
EngineTable ==
    IF param.softmax
    THEN [k \in 1..Len(file_vectors) |-> softmax(file_vectors[k])]
    ELSE file_vectors

\* C9: during the window loop the table handed to the engine is the one
\* the loop started with, and the signals and the record of a window are a
\* function of that table and the window alone: the same whatever other
\* windows were requested, before or after it.
C9_WindowsIndependent ==
    InWindowPhase =>
        /\ prot_vectors = EngineTable
        /\ Len(system_states) = wi - 1
        /\ \A k \in 1..Len(system_states) :
              LET w == param.windows[k]
                  s == fit_save(EngineTable, w, "jsd", slice_w, impute)
              IN  /\ system_states[k] = regression_res(w, s.novelty, s.resonance)
                  /\ file_novelty[w] = s
        /\ \A j, k \in 1..Len(system_states) :
              param.windows[j] = param.windows[k] => system_states[j] = system_states[k]

\* Windows 1 and 2 were both fitted on a softmaxed table of five documents,
\* with different signals.
C9_Witness ==
    /\ pc = "done"
    /\ param.windows = <<1, 2>>
    /\ param.softmax
    /\ Len(system_states) = 2
    /\ file_novelty[1].resonance # file_novelty[2].resonance
    /\ system_states[1].beta # system_states[2].beta

FixedPaths ==
    {<<"prototypes.ndjson", 0>>, <<"vectors.npy", 0>>, <<"cossims.npy", 0>>,
     <<"infodynamics_system_states.ndjson", 0>>}

====
